---- MODULE Spec2Model ----
(***************************************************************************)
(* A model of rust/src/client.rs of node-wreq: the process-wide            *)
(* ClientCache (a DashMap of Arc<HttpClient> plus a mutex-protected        *)
(* VecDeque giving the recency order), the derivation of a ClientKey from  *)
(* RequestOptions, and make_request: the handle it obtains, the request it *)
(* builds and sends, and the cookies it takes from the response.           *)
(*                                                                         *)
(* Each thread runs make_request; its position is pc[t].  The steps of     *)
(* get_or_try_insert and bump_key are the points where the code touches    *)
(* shared state: one DashMap operation (atomic under its shard lock),      *)
(* together with the thread-local work before it, or one stretch under the *)
(* order mutex.                                                            *)
(***************************************************************************)
EXTENDS Integers, Sequences, FiniteSets, TLC

\* ------------------------------------------------------------------ bounds

\* Number of threads calling make_request concurrently.
NThreads == 2

\* CLIENT_CACHE_LIMIT (client.rs:12) is 1024 in the program; the model runs
\* the same code with a small limit so that the queue overflows.
CLIENT_CACHE_LIMIT == 2

\* ------------------------------------------------------- program constants

TIMEOUT_BUCKET_MS == 5000

\* u64 values are kept exactly, as U64Limbs limbs of base LimbBase, least
\* significant first (TLC's own integers are 32 bits wide).
LimbBase == 65536
U64Limbs == 4

Threads == 1..NThreads
NoThread == 0

\* ------------------------------------------------------------ u64 arithmetic

\* The u64 with the value n, for a small n.
U64(n) == <<n % LimbBase, n \div LimbBase, 0, 0>>

U64_MAX == <<LimbBase - 1, LimbBase - 1, LimbBase - 1, LimbBase - 1>>

\* x + c over limbs: the limbs of the sum followed by the carry out.
RECURSIVE LimbAdd(_, _)
LimbAdd(x, c) ==
  IF x = <<>> THEN <<c>>
  ELSE LET s == Head(x) + c
       IN  <<s % LimbBase>> \o LimbAdd(Tail(x), s \div LimbBase)

\* x - b over limbs: the limbs of the difference followed by the borrow out.
RECURSIVE LimbSub(_, _)
LimbSub(x, b) ==
  IF x = <<>> THEN <<b>>
  ELSE LET s == Head(x) - b
       IN  IF s < 0 THEN <<s + LimbBase>> \o LimbSub(Tail(x), 1)
                    ELSE <<s>> \o LimbSub(Tail(x), 0)

\* x * m + c over limbs, m small: the limbs of the product followed by the
\* carry out.
RECURSIVE LimbMul(_, _, _)
LimbMul(x, m, c) ==
  IF x = <<>> THEN <<c>>
  ELSE LET s == Head(x) * m + c
       IN  <<s % LimbBase>> \o LimbMul(Tail(x), m, s \div LimbBase)

\* Long division of (r * LimbBase^Len(x) + x) by a small d, most significant
\* limb first: the quotient's limbs and the remainder.
RECURSIVE LimbDivRem(_, _, _)
LimbDivRem(x, d, r) ==
  IF x = <<>> THEN [q |-> <<>>, r |-> r]
  ELSE LET n    == Len(x)
           cur  == r * LimbBase + x[n]
           rest == LimbDivRem(SubSeq(x, 1, n - 1), d, cur % d)
       IN  [q |-> Append(rest.q, cur \div d), r |-> rest.r]

LimbsAreZero(x) == \A i \in 1..Len(x) : x[i] = 0

\* The low U64Limbs limbs (the wrapped u64) and whether anything was lost.
Wrapped(w) == SubSeq(w, 1, U64Limbs)
Overflowed(w) == w[U64Limbs + 1] # 0

\* --------------------------------------------------------- key derivation

\* bucket_timeout, on u64.  With overflow checks compiled in (a debug build)
\* an overflowing +, - or * panics; without them (a release build) it wraps.
bucket_timeout(timeout, overflow_checks) ==
  LET sum     == LimbAdd(timeout, TIMEOUT_BUCKET_MS)
      dec     == LimbSub(Wrapped(sum), 1)
      buckets == LimbDivRem(Wrapped(dec), TIMEOUT_BUCKET_MS, 0).q
      atleast == IF LimbsAreZero(buckets) THEN U64(1) ELSE buckets
      prod    == LimbMul(atleast, TIMEOUT_BUCKET_MS, 0)
  IN  [panicked |-> overflow_checks
                    /\ (Overflowed(sum) \/ Overflowed(dec) \/ Overflowed(prod)),
       value    |-> Wrapped(prod)]

\* Option<String>
None == <<>>
Some(s) == <<s>>

\* The emulation profiles of the model: two that serde serializes to a string
\* (a unit variant with its rename) and one that it does not.
Emulations == {"Chrome142", "Firefox136", "Opaque"}

\* serde_json::to_value(emulation)
to_value(emulation) ==
  CASE emulation = "Chrome142"  -> [ok |-> TRUE, kind |-> "String", str |-> "chrome_142"]
    [] emulation = "Firefox136" -> [ok |-> TRUE, kind |-> "String", str |-> "firefox_136"]
    [] OTHER                    -> [ok |-> TRUE, kind |-> "Object", str |-> ""]

emulation_label(emulation) ==
  LET v == to_value(emulation)
  IN  IF v.ok /\ v.kind = "String" THEN v.str ELSE "chrome_142"

\* The ClientKey get_or_build_client makes of the options.
ClientKeyOf(options, overflow_checks) ==
  [emulation      |-> emulation_label(options.emulation),
   proxy          |-> options.proxy,
   timeout_bucket |-> bucket_timeout(options.timeout, overflow_checks).value]

\* Proxy::all(proxy_url) parses the url.
ProxyParses(proxy_url) == proxy_url # "not-a-url"

\* build_client: the outcomes of the build.  An unparseable proxy fails it;
\* the builder's own build() may fail or succeed.
build_client(options) ==
  IF options.proxy # None /\ ~ProxyParses(options.proxy[1])
  THEN {"Err"}
  ELSE {"Ok", "Err"}

\* ------------------------------------------------------------------- state

\* The RequestOptions the threads call make_request with (the fields that
\* reach the cache): Chrome142 with timeouts in CLIENT_CACHE_LIMIT different
\* buckets, and three more profiles and proxies with timeout 1, which makes
\* CLIENT_CACHE_LIMIT + 1 keys that can be cached.
CallTimeouts == {U64((i - 1) * TIMEOUT_BUCKET_MS + 1) : i \in 1..CLIENT_CACHE_LIMIT}

CallOptions ==
  [emulation : {"Chrome142"}, proxy : {None}, timeout : CallTimeouts]
  \cup [emulation : {"Firefox136", "Opaque"}, proxy : {None}, timeout : {U64(1)}]
  \cup [emulation : {"Chrome142"}, proxy : {Some("not-a-url")}, timeout : {U64(1)}]

NoOptions == [emulation |-> "", proxy |-> None, timeout |-> U64(0)]
NoKey == [emulation |-> "", proxy |-> None, timeout_bucket |-> U64(0)]
NoFree == [share |-> "", holders |-> {}]

VARIABLES
  clients,    \* ClientCache.clients: ClientKey -> the Arc<HttpClient> stored
              \* for it (a partial function).  An Arc's allocation is the
              \* record of the HttpClient's configuration, the strong count,
              \* the threads holding a copy, and the state of the cache's
              \* own share ("none" before the insert, then "held", then
              \* "evicted" or "replaced")
  detached,   \* the Arc allocations that are alive and not in the map
  order,      \* ClientCache.order: the VecDeque of keys, front first
  orderLock,  \* the thread holding the order mutex, or NoThread
  pc,         \* per thread: where it is in make_request
  options,    \* per thread: the RequestOptions of its call
  key,        \* per thread: the ClientKey of its call
  client,     \* per thread: whether its local `client` holds an Arc
  path,       \* per thread: "hit" or "miss" from the lookup to bump_key
              \* (to the end of the call when hist); "retry" is a miss on
              \* the key whose build failed last
  result,     \* per thread: "", "Ok" or "BuildError"
  lastFreed,  \* history: the last allocation freed, as the state of the
              \* cache's share and the holders it had when freed
  hist,       \* whether the histories below are recorded
  recency,    \* history: the keys in the order of their last touch (a hit's
              \* lookup or a miss's insert), oldest first
  lastFailed, \* history: the key of the last build that failed, or NoKey
  fifo,       \* history: the cached keys in the order of their insertion
  before,     \* history: the cache as the running call found it
  arg,        \* input of the pure-function specifications; where the
              \* requests are followed, the method of each thread's calls
  ret         \* their output

vars == <<clients, detached, order, orderLock, pc, options, key, client, path,
          result, lastFreed, hist, recency, lastFailed, fifo, before, arg, ret>>

\* ------------------------------------------------------------------ helpers

\* Arc::clone by thread t
ArcClone(a, t) == [a EXCEPT !.strong = @ + 1, !.holders = @ \cup {t}]

\* Drop of one Arc: what is left of the allocation, which is freed with the
\* last strong reference.
ArcDrop(a) == IF a.strong = 1 THEN {} ELSE {[a EXCEPT !.strong = @ - 1]}

\* Arc::new(client) by thread t
ArcNew(o, t) ==
  [emulation |-> o.emulation, proxy |-> o.proxy, strong |-> 1, holders |-> {t},
   share |-> "none"]

\* The allocations alive.
Allocations == {clients[k] : k \in DOMAIN clients} \cup detached

\* The allocation thread t's local `client` points to.
Held(t) == {a \in Allocations : t \in a.holders}

\* A retain that removes nothing.
KeepAll(q, k) == q

\* VecDeque::retain(|existing| existing != key)
retain(q, k) == SelectSeq(q, LAMBDA existing : existing # k)

\* DashMap::insert / DashMap::remove on the map as a function.
MapInsert(m, k, v) == [x \in DOMAIN m \cup {k} |-> IF x = k THEN v ELSE m[x]]
MapRemove(m, k) == [x \in DOMAIN m \ {k} |-> m[x]]

\* A queue that keeps a key where it is when it is already there.
PushIfAbsent(q, k) == IF k \in {q[i] : i \in 1..Len(q)} THEN q ELSE Append(q, k)

\* bump_key's two operations on the queue: retain, then push_back.
MoveToBack(q, k) == Append(retain(q, k), k)

\* A loop that evicts as soon as the queue holds CLIENT_CACHE_LIMIT keys.
OverLimitAtLimit(q) == Len(q) >= CLIENT_CACHE_LIMIT

\* VecDeque::len() > CLIENT_CACHE_LIMIT, the condition of bump_key's loop.
OverLimit(q) == Len(q) > CLIENT_CACHE_LIMIT

\* The elements of a sequence.
Range(q) == {q[i] : i \in 1..Len(q)}

\* A touch of key k in the history of touches.
Touch(h, k) == SelectSeq(h, LAMBDA x : x # k) \o <<k>>

\* The cache as a call finds it.
Snapshot == [keys |-> DOMAIN clients, recency |-> recency, fifo |-> fifo]
NoSnapshot == [keys |-> {}, recency |-> <<>>, fifo |-> <<>>]

\* The record of a free, when `left` (what a drop left of allocation a) is
\* empty.
Freed(a, left) ==
  IF left = {} THEN [share |-> a.share, holders |-> a.holders] ELSE lastFreed

\* ------------------------------------------------------------------- Init

CacheInit ==
  /\ clients = [k \in {} |-> NoFree]
  /\ detached = {}
  /\ order = <<>>
  /\ orderLock = NoThread
  /\ pc = [t \in Threads |-> "idle"]
  /\ options = [t \in Threads |-> NoOptions]
  /\ key = [t \in Threads |-> NoKey]
  /\ client = [t \in Threads |-> FALSE]
  /\ path = [t \in Threads |-> ""]
  /\ result = [t \in Threads |-> ""]
  /\ lastFreed = NoFree
  /\ recency = <<>>
  /\ lastFailed = NoKey
  /\ fifo = <<>>
  /\ before = NoSnapshot

Init == CacheInit /\ hist = FALSE /\ arg = <<>> /\ ret = <<>>

\* ---------------------------------------------------------------- actions

\* A hit that returns the entry without bump_key.
LookupHitNoBump(t) ==
  /\ pc[t] = "idle"
  /\ \E o \in CallOptions : \E overflow_checks \in BOOLEAN :
       LET k == ClientKeyOf(o, overflow_checks)
       IN  /\ ~bucket_timeout(o.timeout, overflow_checks).panicked
           /\ k \in DOMAIN clients
           /\ options' = [options EXCEPT ![t] = o]
           /\ key' = [key EXCEPT ![t] = k]
           /\ clients' = [clients EXCEPT ![k] = ArcClone(@, t)]
           /\ recency' = IF hist THEN Touch(recency, k) ELSE recency
  /\ before' = IF hist THEN Snapshot ELSE before
  /\ client' = [client EXCEPT ![t] = TRUE]
  /\ path' = [path EXCEPT ![t] = "hit"]
  /\ result' = [result EXCEPT ![t] = "Ok"]
  /\ pc' = [pc EXCEPT ![t] = "returned"]
  /\ UNCHANGED <<detached, order, orderLock, lastFreed, hist, lastFailed,
                 fifo, arg, ret>>

\* make_request calls get_or_build_client, which derives the key and calls
\* get_or_try_insert: self.clients.get(&key) finds the entry, clones it and
\* drops the guard.
LookupHit(t) ==
  /\ pc[t] = "idle"
  /\ \E o \in CallOptions : \E overflow_checks \in BOOLEAN :
       LET k == ClientKeyOf(o, overflow_checks)
       IN  /\ ~bucket_timeout(o.timeout, overflow_checks).panicked
           /\ k \in DOMAIN clients
           /\ options' = [options EXCEPT ![t] = o]
           /\ key' = [key EXCEPT ![t] = k]
           /\ clients' = [clients EXCEPT ![k] = ArcClone(@, t)]
           /\ recency' = IF hist THEN Touch(recency, k) ELSE recency
  /\ before' = IF hist THEN Snapshot ELSE before
  /\ client' = [client EXCEPT ![t] = TRUE]
  /\ path' = [path EXCEPT ![t] = "hit"]
  /\ pc' = [pc EXCEPT ![t] = "bump"]
  /\ UNCHANGED <<detached, order, orderLock, result, lastFreed, hist,
                 lastFailed, fifo, arg, ret>>

\* A miss that remembers a failed build by an entry for the key.
LookupMissNegativeCache(t) ==
  /\ pc[t] = "idle"
  /\ \E o \in CallOptions : \E overflow_checks \in BOOLEAN :
       LET k == ClientKeyOf(o, overflow_checks)
       IN  /\ ~bucket_timeout(o.timeout, overflow_checks).panicked
           /\ k \notin DOMAIN clients
           /\ options' = [options EXCEPT ![t] = o]
           /\ key' = [key EXCEPT ![t] = k]
           /\ path' = [path EXCEPT ![t] =
                         IF hist /\ k = lastFailed THEN "retry" ELSE "miss"]
           /\ \E outcome \in build_client(o) :
                IF outcome = "Ok"
                THEN /\ detached' = detached \cup {ArcNew(o, t)}
                     /\ client' = [client EXCEPT ![t] = TRUE]
                     /\ pc' = [pc EXCEPT ![t] = "insert"]
                     /\ UNCHANGED <<clients, result, lastFailed>>
                ELSE /\ result' = [result EXCEPT ![t] = "BuildError"]
                     /\ lastFailed' = IF hist THEN k ELSE lastFailed
                     /\ clients' = MapInsert(clients, k,
                                      [ArcNew(o, t) EXCEPT !.holders = {},
                                                           !.share = "held"])
                     /\ pc' = [pc EXCEPT ![t] = "returned"]
                     /\ UNCHANGED <<detached, client>>
  /\ before' = IF hist THEN Snapshot ELSE before
  /\ UNCHANGED <<order, orderLock, lastFreed, hist, recency, fifo, arg, ret>>

\* The same, when self.clients.get(&key) finds nothing: Arc::new(builder()?)
\* with builder = build_client.
LookupMiss(t) ==
  /\ pc[t] = "idle"
  /\ \E o \in CallOptions : \E overflow_checks \in BOOLEAN :
       LET k == ClientKeyOf(o, overflow_checks)
       IN  /\ ~bucket_timeout(o.timeout, overflow_checks).panicked
           /\ k \notin DOMAIN clients
           /\ options' = [options EXCEPT ![t] = o]
           /\ key' = [key EXCEPT ![t] = k]
           /\ path' = [path EXCEPT ![t] =
                         IF hist /\ k = lastFailed THEN "retry" ELSE "miss"]
           /\ \E outcome \in build_client(o) :
                IF outcome = "Ok"
                THEN /\ detached' = detached \cup {ArcNew(o, t)}
                     /\ client' = [client EXCEPT ![t] = TRUE]
                     /\ pc' = [pc EXCEPT ![t] = "insert"]
                     /\ UNCHANGED <<result, lastFailed>>
                ELSE /\ result' = [result EXCEPT ![t] = "BuildError"]
                     /\ lastFailed' = IF hist THEN k ELSE lastFailed
                     /\ pc' = [pc EXCEPT ![t] = "returned"]
                     /\ UNCHANGED <<detached, client>>
  /\ before' = IF hist THEN Snapshot ELSE before
  /\ UNCHANGED <<clients, order, orderLock, lastFreed, hist, recency, fifo,
                 arg, ret>>

\* An insert that leaves the entry the map already holds for the key.
InsertKeepsFirst(t) ==
  /\ pc[t] = "insert"
  /\ LET new  == CHOOSE a \in detached : t \in a.holders
         kept == [new EXCEPT !.strong = @ + 1, !.share = "held"]
     IN  IF key[t] \in DOMAIN clients
         THEN UNCHANGED <<clients, detached, lastFreed>>
         ELSE /\ clients' = MapInsert(clients, key[t], kept)
              /\ detached' = detached \ {new}
              /\ UNCHANGED lastFreed
  /\ recency' = IF hist THEN Touch(recency, key[t]) ELSE recency
  /\ fifo' = IF hist /\ key[t] \notin DOMAIN clients
             THEN Append(fifo, key[t]) ELSE fifo
  /\ pc' = [pc EXCEPT ![t] = "bump"]
  /\ UNCHANGED <<order, orderLock, options, key, client, path, result, hist,
                 lastFailed, before, arg, ret>>

\* get_or_try_insert: self.clients.insert(key.clone(), client.clone()); the
\* value the map held for the key, if any, is dropped.
Insert(t) ==
  /\ pc[t] = "insert"
  /\ LET new  == CHOOSE a \in detached : t \in a.holders
         kept == [new EXCEPT !.strong = @ + 1, !.share = "held"]
     IN  /\ clients' = MapInsert(clients, key[t], kept)
         /\ IF key[t] \in DOMAIN clients
            THEN LET old  == [clients[key[t]] EXCEPT !.share = "replaced"]
                     left == ArcDrop(old)
                 IN  /\ detached' = (detached \ {new}) \cup left
                     /\ lastFreed' = Freed(old, left)
            ELSE /\ detached' = detached \ {new}
                 /\ UNCHANGED lastFreed
  /\ recency' = IF hist THEN Touch(recency, key[t]) ELSE recency
  /\ fifo' = IF hist /\ key[t] \notin DOMAIN clients
             THEN Append(fifo, key[t]) ELSE fifo
  /\ pc' = [pc EXCEPT ![t] = "bump"]
  /\ UNCHANGED <<order, orderLock, options, key, client, path, result, hist,
                 lastFailed, before, arg, ret>>

\* bump_key: lock the order, retain, push_back.
BumpLock(t) ==
  /\ pc[t] = "bump"
  /\ orderLock = NoThread
  /\ orderLock' = t
  /\ order' = MoveToBack(order, key[t])
  /\ path' = IF hist THEN path ELSE [path EXCEPT ![t] = ""]
  /\ pc' = [pc EXCEPT ![t] = "evict"]
  /\ UNCHANGED <<clients, detached, options, key, client, result, lastFreed,
                 hist, recency, lastFailed, fifo, before, arg, ret>>

\* An eviction that pops the queue and leaves the map entry.
BumpEvictKeepsEntry(t) ==
  /\ pc[t] = "evict"
  /\ OverLimit(order)
  /\ order' = Tail(order)
  /\ UNCHANGED <<clients, detached, lastFreed, fifo>>
  /\ UNCHANGED <<orderLock, pc, options, key, client, path, result, hist,
                 recency, lastFailed, before, arg, ret>>

\* An eviction that destroys the client it removes, whoever still holds it.
BumpEvictDestroys(t) ==
  /\ pc[t] = "evict"
  /\ OverLimit(order)
  /\ LET oldest == Head(order)
     IN  /\ order' = Tail(order)
         /\ clients' = MapRemove(clients, oldest)
         /\ IF oldest \in DOMAIN clients
            THEN lastFreed' = [share |-> "evicted",
                               holders |-> clients[oldest].holders]
            ELSE UNCHANGED lastFreed
         /\ fifo' = IF hist THEN SelectSeq(fifo, LAMBDA x : x # oldest) ELSE fifo
  /\ UNCHANGED <<detached, orderLock, pc, options, key, client, path, result,
                 hist, recency, lastFailed, before, arg, ret>>

\* bump_key: one turn of the while loop: pop_front and clients.remove.
BumpEvict(t) ==
  /\ pc[t] = "evict"
  /\ OverLimit(order)
  /\ LET oldest == Head(order)
     IN  /\ order' = Tail(order)
         /\ clients' = MapRemove(clients, oldest)
         /\ IF oldest \in DOMAIN clients
            THEN LET old  == [clients[oldest] EXCEPT !.share = "evicted"]
                     left == ArcDrop(old)
                 IN  /\ detached' = detached \cup left
                     /\ lastFreed' = Freed(old, left)
            ELSE UNCHANGED <<detached, lastFreed>>
         /\ fifo' = IF hist THEN SelectSeq(fifo, LAMBDA x : x # oldest) ELSE fifo
  /\ UNCHANGED <<orderLock, pc, options, key, client, path, result, hist,
                 recency, lastFailed, before, arg, ret>>

\* A bump_key that returns without unlocking the order.
BumpUnlockKeepsLock(t) ==
  /\ pc[t] = "evict"
  /\ ~OverLimit(order)
  /\ result' = [result EXCEPT ![t] = "Ok"]
  /\ pc' = [pc EXCEPT ![t] = "returned"]
  /\ UNCHANGED <<clients, detached, order, orderLock, options, key, client,
                 path, lastFreed, hist, recency, lastFailed, fifo, before, arg,
                 ret>>

\* bump_key returns (its guard unlocks the order) and get_or_try_insert
\* returns Ok(client) to make_request.
BumpUnlock(t) ==
  /\ pc[t] = "evict"
  /\ ~OverLimit(order)
  /\ orderLock' = NoThread
  /\ result' = [result EXCEPT ![t] = "Ok"]
  /\ pc' = [pc EXCEPT ![t] = "returned"]
  /\ UNCHANGED <<clients, detached, order, options, key, client, path,
                 lastFreed, hist, recency, lastFailed, fifo, before, arg, ret>>

\* A request that closes its client when it ends, although the cache still
\* holds it.
FinishDestroys(t) ==
  /\ pc[t] \in {"returned", "done"}
  /\ IF ~client[t] \/ Held(t) = {}
     THEN UNCHANGED <<clients, detached, lastFreed>>
     ELSE LET a == CHOOSE x \in Held(t) : TRUE
          IN  /\ detached' = detached \ {a}
              /\ clients' = [k \in {x \in DOMAIN clients : clients[x] # a} |->
                               clients[k]]
              /\ lastFreed' = [share |-> a.share, holders |-> a.holders \ {t}]
  /\ pc' = [pc EXCEPT ![t] = "idle"]
  /\ options' = [options EXCEPT ![t] = NoOptions]
  /\ key' = [key EXCEPT ![t] = NoKey]
  /\ client' = [client EXCEPT ![t] = FALSE]
  /\ path' = [path EXCEPT ![t] = ""]
  /\ result' = [result EXCEPT ![t] = ""]
  /\ UNCHANGED <<order, orderLock, hist, recency, lastFailed, fifo, before,
                 arg, ret>>

\* make_request ends: with the build error, or after its request (whose
\* steps, where they are followed, have brought it to "done"), when its copy
\* of the handle is dropped.
Finish(t) ==
  /\ pc[t] \in {"returned", "done"}
  /\ IF ~client[t] \/ Held(t) = {}
     THEN UNCHANGED <<clients, detached, lastFreed>>
     ELSE LET a    == CHOOSE x \in Held(t) : TRUE
              mine == [a EXCEPT !.holders = @ \ {t}]
              left == ArcDrop(mine)
          IN  IF a \in detached
              THEN /\ detached' = (detached \ {a}) \cup left
                   /\ lastFreed' = Freed(mine, left)
                   /\ UNCHANGED clients
              ELSE /\ clients' = [k \in DOMAIN clients |->
                                    IF clients[k] = a
                                    THEN [mine EXCEPT !.strong = @ - 1]
                                    ELSE clients[k]]
                   /\ UNCHANGED <<detached, lastFreed>>
  /\ pc' = [pc EXCEPT ![t] = "idle"]
  /\ options' = [options EXCEPT ![t] = NoOptions]
  /\ key' = [key EXCEPT ![t] = NoKey]
  /\ client' = [client EXCEPT ![t] = FALSE]
  /\ path' = [path EXCEPT ![t] = ""]
  /\ result' = [result EXCEPT ![t] = ""]
  /\ UNCHANGED <<order, orderLock, hist, recency, lastFailed, fifo, before,
                 arg, ret>>

Step(t) ==
  \/ LookupHit(t)
  \/ LookupMiss(t)
  \/ Insert(t)
  \/ BumpLock(t)
  \/ BumpEvict(t)
  \/ BumpUnlock(t)
  \/ Finish(t)

Next == \E t \in Threads : Step(t)

Spec == Init /\ [][Next]_vars

\* Sequential execution: a thread takes a step only while no other thread is
\* in a call.  The histories are recorded.
SeqInit == CacheInit /\ hist = TRUE /\ arg = <<>> /\ ret = <<>>

Alone(t) == \A u \in Threads \ {t} : pc[u] = "idle"

SeqNext ==
  \E t \in Threads :
    \/ Alone(t) /\ LookupHit(t)
    \/ Alone(t) /\ LookupMiss(t)
    \/ Alone(t) /\ Insert(t)
    \/ Alone(t) /\ BumpLock(t)
    \/ Alone(t) /\ BumpEvict(t)
    \/ Alone(t) /\ BumpUnlock(t)
    \/ Alone(t) /\ Finish(t)

SeqSpec == SeqInit /\ [][SeqNext]_vars

\* ------------------------------------------- a finite set of calls, fairly

\* The caches at rest that the calls start from: the queues of at most
\* CLIENT_CACHE_LIMIT different options whose build succeeded, each with its
\* client in the map, held by the cache alone.
CachedOptions ==
  {o \in CallOptions : o.emulation # "Opaque" /\ build_client(o) # {"Err"}}

RestQueues ==
  {q \in UNION {[1..n -> CachedOptions] : n \in 0..CLIENT_CACHE_LIMIT} :
     \A i, j \in 1..Len(q) : q[i] = q[j] => i = j}

LiveInit ==
  /\ \E q \in RestQueues :
       /\ order = [i \in 1..Len(q) |-> ClientKeyOf(q[i], FALSE)]
       /\ clients = [k \in {ClientKeyOf(q[i], FALSE) : i \in 1..Len(q)} |->
                       LET o == CHOOSE x \in Range(q) : ClientKeyOf(x, FALSE) = k
                       IN  [emulation |-> o.emulation, proxy |-> o.proxy,
                            strong |-> 1, holders |-> {}, share |-> "held"]]
  /\ detached = {}
  /\ orderLock = NoThread
  /\ pc = [t \in Threads |-> "idle"]
  /\ options = [t \in Threads |-> NoOptions]
  /\ key = [t \in Threads |-> NoKey]
  /\ client = [t \in Threads |-> FALSE]
  /\ path = [t \in Threads |-> ""]
  /\ result = [t \in Threads |-> ""]
  /\ lastFreed = NoFree
  /\ recency = <<>>
  /\ lastFailed = NoKey
  /\ fifo = <<>>
  /\ before = NoSnapshot
  /\ hist = FALSE /\ arg = <<>> /\ ret = <<>>

\* Each thread calls get_or_try_insert once, and holds what it returns.
LiveNext ==
  \E t \in Threads :
    \/ LookupHit(t)
    \/ LookupMiss(t)
    \/ Insert(t)
    \/ BumpLock(t)
    \/ BumpEvict(t)
    \/ BumpUnlock(t)

\* The steps of a call that is under way.  A thread that can take a step
\* takes it in the end: get_or_try_insert does not suspend.
Proceeds(t) == Insert(t) \/ BumpLock(t) \/ BumpEvict(t) \/ BumpUnlock(t)

LiveSpec ==
  LiveInit /\ [][LiveNext]_vars /\ \A t \in Threads : WF_vars(Proceeds(t))

\* ------------------------------------------------ key derivation alone

\* u64::MAX - d
FromTop(d) == Wrapped(LimbSub(U64_MAX, d))

\* The timeouts bucket_timeout is applied to: the low ones and the ones
\* within MaxOffset of u64::MAX.
MaxOffset == 10001
BucketInputs == {U64(n) : n \in 0..MaxOffset} \cup {FromTop(d) : d \in 0..MaxOffset}

BucketInit ==
  /\ CacheInit /\ hist = FALSE
  /\ arg \in {<<timeout>> : timeout \in BucketInputs}
  /\ ret = <<>>

\* bucket_timeout(options.timeout), in a build with or without overflow
\* checks.
BucketTimeout ==
  /\ ret = <<>>
  /\ \E overflow_checks \in BOOLEAN :
       ret' = <<bucket_timeout(arg[1], overflow_checks)>>
  /\ UNCHANGED <<clients, detached, order, orderLock, pc, options, key, client,
                 path, result, lastFreed, hist, recency, lastFailed, fifo,
                 before, arg>>

BucketSpec == BucketInit /\ [][BucketTimeout]_vars

\* The pairs of RequestOptions whose keys are compared.
KeyOptions ==
  [emulation : Emulations,
   proxy     : {None, Some("http://127.0.0.1:8080"), Some("not-a-url")},
   timeout   : {U64(0), U64(1), U64(TIMEOUT_BUCKET_MS), U64(TIMEOUT_BUCKET_MS + 1)}]

KeyInit ==
  /\ CacheInit /\ hist = FALSE
  /\ arg \in KeyOptions \X KeyOptions
  /\ ret = <<>>

\* get_or_build_client's key, for each of the two options.
DeriveKeys ==
  /\ ret = <<>>
  /\ \E overflow_checks \in BOOLEAN :
       /\ ~bucket_timeout(arg[1].timeout, overflow_checks).panicked
       /\ ~bucket_timeout(arg[2].timeout, overflow_checks).panicked
       /\ ret' = <<ClientKeyOf(arg[1], overflow_checks),
                   ClientKeyOf(arg[2], overflow_checks)>>
  /\ UNCHANGED <<clients, detached, order, orderLock, pc, options, key, client,
                 path, result, lastFreed, hist, recency, lastFailed, fifo,
                 before, arg>>

KeySpec == KeyInit /\ [][DeriveKeys]_vars

\* ------------------------------------------- make_request: the request

\* Strings whose characters matter are sequences of one-character strings.
Lower == <<"a", "b", "c", "d", "e", "g", "h", "l", "o", "p", "r", "s", "t", "u">>
Upper == <<"A", "B", "C", "D", "E", "G", "H", "L", "O", "P", "R", "S", "T", "U">>

\* char::to_uppercase and str::to_uppercase
UpperChar(c) ==
  IF \E i \in 1..Len(Lower) : Lower[i] = c
  THEN Upper[CHOOSE i \in 1..Len(Lower) : Lower[i] = c]
  ELSE c

to_uppercase(s) == [i \in 1..Len(s) |-> UpperChar(s[i])]

GET == <<"G", "E", "T">>
POST == <<"P", "O", "S", "T">>
PUT == <<"P", "U", "T">>
DELETE == <<"D", "E", "L", "E", "T", "E">>
PATCH == <<"P", "A", "T", "C", "H">>
HEAD == <<"H", "E", "A", "D">>

\* The arms of the match on method_upper that build a request.
SupportedMethods == {GET, POST, PUT, DELETE, PATCH, HEAD}

\* "Unsupported HTTP method: "
UnsupportedPrefix ==
  <<"U", "n", "s", "u", "p", "p", "o", "r", "t", "e", "d", " ",
    "H", "T", "T", "P", " ", "m", "e", "t", "h", "o", "d", ":", " ">>

NoRequest == [method |-> <<>>, url |-> "", headers |-> <<>>, body |-> None,
              timeout |-> U64(0)]

\* A method that is passed on as it is, empty or not.
KeepMethod(method) == method

\* let method = if method.is_empty() { "GET" } else { method }
DefaultMethod(method) == IF method = <<>> THEN GET ELSE method

\* make_request from the destructuring of the options to request.timeout():
\* the request that is sent, or the error of the unsupported method.
RequestOf(o) ==
  LET method       == DefaultMethod(o.method)
      method_upper == to_uppercase(method)
  IN  IF method_upper \in SupportedMethods
      THEN [ok      |-> TRUE,
            request |-> [method |-> method_upper, url |-> o.url,
                         headers |-> o.headers, body |-> o.body,
                         timeout |-> o.timeout],
            message |-> <<>>]
      ELSE [ok      |-> FALSE,
            request |-> NoRequest,
            message |-> UnsupportedPrefix \o method_upper]

\* What the network does with a request that is sent.
NetworkOutcomes == {"SendFails", "BodyFails", "Responds"}

\* The result of make_request for a request and what the network did with it:
\* the send error with "{method_upper} {url}" as its context, the body error,
\* or the Response (of a server that echoes the request).
ResultOf(r, outcome) ==
  IF ~r.ok THEN [kind |-> "UnsupportedMethod", context |-> r.message]
  ELSE CASE outcome = "SendFails" ->
              [kind |-> "RequestError",
               context |-> r.request.method \o <<" ", r.request.url>>]
         [] outcome = "BodyFails" ->
              [kind |-> "BodyReadError",
               context |-> <<"Failed to read response body">>]
         [] OTHER ->
              [kind |-> "Response", context |-> <<r.request>>]

\* Everything make_request does with its options: the key it looks up, the
\* outcomes of the build and the client built on a miss, the request it
\* sends, and its result for each thing the network may do.
PlanOf(o, overflow_checks) ==
  [key     |-> ClientKeyOf(o, overflow_checks),
   build   |-> build_client(o),
   built   |-> [emulation |-> o.emulation, proxy |-> o.proxy],
   request |-> RequestOf(o),
   result  |-> [n \in NetworkOutcomes |-> ResultOf(RequestOf(o), n)]]

\* The method strings make_request is called with.
Methods ==
  {<<>>, GET, <<"g", "e", "t">>, <<"G", "e", "t">>, POST, <<"p", "o", "s", "t">>,
   PUT, DELETE, PATCH, HEAD, <<"T", "R", "A", "C", "E">>,
   <<"t", "r", "a", "c", "e">>, <<"G", "E", "T", " ">>}

PlanOptions ==
  [url       : {"http://example.test/"},
   emulation : {"Chrome142", "Firefox136"},
   headers   : {<<>>, <<<<"accept", "*/*">>>>},
   method    : Methods,
   body      : {None, Some("payload")},
   proxy     : {None, Some("not-a-url")},
   timeout   : {U64(1), U64(TIMEOUT_BUCKET_MS + 1)}]

\* Two calls whose options differ in the method at most.
PlanInit ==
  /\ CacheInit /\ hist = FALSE
  /\ arg \in {<<o, [o EXCEPT !.method = m]>> : o \in PlanOptions, m \in Methods}
  /\ ret = <<>>

PlanRequests ==
  /\ ret = <<>>
  /\ \E overflow_checks \in BOOLEAN :
       /\ ~bucket_timeout(arg[1].timeout, overflow_checks).panicked
       /\ ret' = <<PlanOf(arg[1], overflow_checks), PlanOf(arg[2], overflow_checks)>>
  /\ UNCHANGED <<clients, detached, order, orderLock, pc, options, key, client,
                 path, result, lastFreed, hist, recency, lastFailed, fifo,
                 before, arg>>

PlanSpec == PlanInit /\ [][PlanRequests]_vars

\* ------------------------------------ make_request: the calls in flight

\* The RequestOptions of thread t's call, with the fields the cache does not
\* read.
CallOf(t) ==
  [url |-> "http://example.test/", emulation |-> options[t].emulation,
   headers |-> <<>>, method |-> arg[t], body |-> None,
   proxy |-> options[t].proxy, timeout |-> options[t].timeout]

\* A make_request that looks at its method first: a call with an unsupported
\* method fails before it gets its client.
RequestBeforeClient(t) ==
  \/ /\ pc[t] = "returned" /\ result[t] = "Ok"
     /\ LET r == RequestOf(CallOf(t))
        IN  IF r.ok
            THEN /\ pc' = [pc EXCEPT ![t] = "send"]
                 /\ UNCHANGED result
            ELSE /\ pc' = [pc EXCEPT ![t] = "done"]
                 /\ result' = [result EXCEPT ![t] =
                                 ResultOf(r, "Responds").kind]
     /\ UNCHANGED <<clients, detached, order, orderLock, options, key, client,
                    path, lastFreed, hist, recency, lastFailed, fifo, before,
                    arg, ret>>
  \/ /\ pc[t] = "idle"
     /\ to_uppercase(DefaultMethod(arg[t])) \notin SupportedMethods
     /\ \E o \in CallOptions : \E overflow_checks \in BOOLEAN :
          /\ ~bucket_timeout(o.timeout, overflow_checks).panicked
          /\ options' = [options EXCEPT ![t] = o]
          /\ key' = [key EXCEPT ![t] = ClientKeyOf(o, overflow_checks)]
     /\ path' = [path EXCEPT ![t] = "miss"]
     /\ result' = [result EXCEPT ![t] = "UnsupportedMethod"]
     /\ pc' = [pc EXCEPT ![t] = "done"]
     /\ before' = IF hist THEN Snapshot ELSE before
     /\ UNCHANGED <<clients, detached, order, orderLock, client, lastFreed,
                    hist, recency, lastFailed, fifo, arg, ret>>

\* make_request after get_or_build_client returned the client: the method is
\* normalised and matched, and the request built and sent, or the call fails
\* with the unsupported method.
Request(t) ==
  /\ pc[t] = "returned" /\ result[t] = "Ok"
  /\ LET r == RequestOf(CallOf(t))
     IN  IF r.ok
         THEN /\ pc' = [pc EXCEPT ![t] = "send"]
              /\ UNCHANGED result
         ELSE /\ pc' = [pc EXCEPT ![t] = "done"]
              /\ result' = [result EXCEPT ![t] =
                              ResultOf(r, "Responds").kind]
  /\ UNCHANGED <<clients, detached, order, orderLock, options, key, client,
                 path, lastFreed, hist, recency, lastFailed, fifo, before, arg,
                 ret>>

\* A send whose failure takes the client out of the cache.
SendDropsFailedClient(t) ==
  /\ pc[t] = "send"
  /\ \E n \in NetworkOutcomes :
       IF n = "SendFails"
       THEN /\ pc' = [pc EXCEPT ![t] = "done"]
            /\ result' = [result EXCEPT ![t] = ResultOf(RequestOf(CallOf(t)), n).kind]
            /\ clients' = MapRemove(clients, key[t])
            /\ order' = retain(order, key[t])
       ELSE /\ pc' = [pc EXCEPT ![t] = "body"]
            /\ UNCHANGED <<result, clients, order>>
  /\ UNCHANGED <<detached, orderLock, options, key, client, path, lastFreed,
                 hist, recency, lastFailed, fifo, before, arg, ret>>

\* request.send().await: it fails (a timeout among the reasons) and the call
\* returns the error, or the response arrives, whose status, url, headers
\* and cookies are taken.
Send(t) ==
  /\ pc[t] = "send"
  /\ \E n \in NetworkOutcomes :
       IF n = "SendFails"
       THEN /\ pc' = [pc EXCEPT ![t] = "done"]
            /\ result' = [result EXCEPT ![t] = ResultOf(RequestOf(CallOf(t)), n).kind]
       ELSE /\ pc' = [pc EXCEPT ![t] = "body"]
            /\ UNCHANGED result
  /\ UNCHANGED <<clients, detached, order, orderLock, options, key, client,
                 path, lastFreed, hist, recency, lastFailed, fifo, before, arg,
                 ret>>

\* response.text().await: it fails, or the call returns the Response.
ReadBody(t) ==
  /\ pc[t] = "body"
  /\ \E n \in NetworkOutcomes \ {"SendFails"} :
       result' = [result EXCEPT ![t] = ResultOf(RequestOf(CallOf(t)), n).kind]
  /\ pc' = [pc EXCEPT ![t] = "done"]
  /\ UNCHANGED <<clients, detached, order, orderLock, options, key, client,
                 path, lastFreed, hist, recency, lastFailed, fifo, before, arg,
                 ret>>

\* The caller drops the future of make_request while it is suspended in
\* send or in text.
Cancel(t) ==
  /\ pc[t] \in {"send", "body"}
  /\ result' = [result EXCEPT ![t] = "Cancelled"]
  /\ pc' = [pc EXCEPT ![t] = "done"]
  /\ UNCHANGED <<clients, detached, order, orderLock, options, key, client,
                 path, lastFreed, hist, recency, lastFailed, fifo, before, arg,
                 ret>>

\* make_request is over: after its request, or with the build error.
Over(t) == pc[t] = "done" \/ (pc[t] = "returned" /\ result[t] = "BuildError")

\* Concurrent calls of make_request followed through their requests.  The
\* methods of the calls in flight together:
ReqMethods == {<<>>, <<"T", "R", "A", "C", "E">>}

ReqInit == CacheInit /\ hist = FALSE /\ arg \in [Threads -> ReqMethods] /\ ret = <<>>

ReqNext ==
  \E t \in Threads :
    \/ LookupHit(t)
    \/ LookupMiss(t)
    \/ Insert(t)
    \/ BumpLock(t)
    \/ BumpEvict(t)
    \/ BumpUnlock(t)
    \/ Request(t)
    \/ Send(t)
    \/ ReadBody(t)
    \/ Cancel(t)
    \/ Over(t) /\ Finish(t)

ReqSpec == ReqInit /\ [][ReqNext]_vars

\* The same calls one after the other, with the histories.
SeqReqMethods == {<<"p", "o", "s", "t">>, <<"t", "r", "a", "c", "e">>}

SeqReqInit ==
  CacheInit /\ hist = TRUE /\ arg \in [Threads -> SeqReqMethods] /\ ret = <<>>

SeqReqNext ==
  \E t \in Threads :
    \/ Alone(t) /\ LookupHit(t)
    \/ Alone(t) /\ LookupMiss(t)
    \/ Alone(t) /\ Insert(t)
    \/ Alone(t) /\ BumpLock(t)
    \/ Alone(t) /\ BumpEvict(t)
    \/ Alone(t) /\ BumpUnlock(t)
    \/ Alone(t) /\ Request(t)
    \/ Alone(t) /\ Send(t)
    \/ Alone(t) /\ ReadBody(t)
    \/ Alone(t) /\ Cancel(t)
    \/ Alone(t) /\ Over(t) /\ Finish(t)

SeqReqSpec == SeqReqInit /\ [][SeqReqNext]_vars

\* ------------------------------------------- make_request: the cookies

\* A byte of a header value that is not visible ASCII.
NonText == "0xFF"

\* HeaderValue::to_str: Ok when every byte is visible ASCII (or a tab).
to_str(value) ==
  [ok |-> \A i \in 1..Len(value) : value[i] # NonText, str |-> value]

\* str::split(';'): the segments between the separators, in order (one
\* empty segment for the empty string).
RECURSIVE split(_, _)
split(str, sep) ==
  IF \A i \in 1..Len(str) : str[i] # sep
  THEN <<str>>
  ELSE LET i == CHOOSE x \in 1..Len(str) :
                  str[x] = sep /\ \A y \in 1..(x - 1) : str[y] # sep
       IN  <<SubSeq(str, 1, i - 1)>> \o split(SubSeq(str, i + 1, Len(str)), sep)

\* A trim that leaves the segment as it is.
NoTrim(str) == str

\* str::trim(): without the white space at both ends.
RECURSIVE trim(_)
trim(str) ==
  IF str = <<>> THEN str
  ELSE IF Head(str) = " " THEN trim(Tail(str))
  ELSE IF str[Len(str)] = " " THEN trim(SubSeq(str, 1, Len(str) - 1))
  ELSE str

\* str::split_once('='): the parts before and after the first '=', if any.
split_once(str, sep) ==
  IF \A i \in 1..Len(str) : str[i] # sep
  THEN [some |-> FALSE, key |-> <<>>, value |-> <<>>]
  ELSE LET i == CHOOSE x \in 1..Len(str) :
                  str[x] = sep /\ \A y \in 1..(x - 1) : str[y] # sep
       IN  [some |-> TRUE, key |-> SubSeq(str, 1, i - 1),
            value |-> SubSeq(str, i + 1, Len(str))]

NoCookies == [name \in {} |-> <<>>]

\* The loop over cookie_str.split(';'): cookies.insert(key, value) for each
\* part that has a '='.
RECURSIVE InsertCookies(_, _)
InsertCookies(cookies, parts) ==
  IF parts = <<>> THEN cookies
  ELSE LET once == split_once(trim(Head(parts)), "=")
       IN  InsertCookies(IF once.some
                         THEN MapInsert(cookies, once.key, once.value)
                         ELSE cookies,
                         Tail(parts))

\* make_request's cookies, of the set-cookie values of the response's
\* headers in their order: headers().get("set-cookie") is the first of them.
CookiesOf(set_cookie) ==
  IF set_cookie = <<>> THEN NoCookies
  ELSE LET cookie_str == to_str(set_cookie[1])
       IN  IF cookie_str.ok
           THEN InsertCookies(NoCookies, split(cookie_str.str, ";"))
           ELSE NoCookies

\* The set-cookie header values of the responses: every value of at most
\* MaxValueLen bytes of the alphabet, and "a=1; b=2"; alone, or followed by
\* a second set-cookie header; or no set-cookie header.
MaxValueLen == 4
ValueBytes == {"a", "1", "=", ";", " ", NonText}
Example == <<"a", "=", "1", ";", " ", "b", "=", "2">>

SetCookieValues ==
  UNION {[1..n -> ValueBytes] : n \in 0..MaxValueLen} \cup {Example}

CookieInit ==
  /\ CacheInit /\ hist = FALSE
  /\ arg \in {<<>>} \cup {<<v>> : v \in SetCookieValues}
              \cup {<<v, <<"a", "=", "a">> >> : v \in SetCookieValues}
  /\ ret = <<>>

ExtractCookies ==
  /\ ret = <<>>
  /\ ret' = <<CookiesOf(arg)>>
  /\ UNCHANGED <<clients, detached, order, orderLock, pc, options, key, client,
                 path, result, lastFreed, hist, recency, lastFailed, fifo,
                 before, arg>>

CookieSpec == CookieInit /\ [][ExtractCookies]_vars

\* ------------------------------------------------------------------ claims

\* No get_or_try_insert call is in progress.
AtRest == \A t \in Threads : pc[t] \in {"idle", "returned"}

\* Thread t's get_or_try_insert returns Ok in this step.
Returns(t) == pc[t] = "evict" /\ pc'[t] = "returned"

\* C1: whenever a call to get_or_try_insert returns, the map holds
\* at most CLIENT_CACHE_LIMIT entries, whatever the other calls are doing.
C1_SizeAtReturn ==
  [][\A t \in Threads :
       Returns(t) => Cardinality(DOMAIN clients') <= CLIENT_CACHE_LIMIT]_vars

\* The cached keys of a snapshot in the order of their last touch, oldest
\* first.
ByLastTouch(snap) == SelectSeq(snap.recency, LAMBDA k : k \in snap.keys)

\* Thread t has returned from a get_or_try_insert that found the cache full
\* and its key absent, and built the client.
InsertedIntoFull(t) ==
  /\ pc[t] = "returned" /\ result[t] = "Ok" /\ path[t] # "hit"
  /\ Cardinality(before.keys) = CLIENT_CACHE_LIMIT

\* C2: in sequential execution, an insert of a new key into a full cache
\* removes exactly one cached key from the map and from the queue, the one
\* touched longest ago; the other cached keys and the new key remain.
C2_EvictsExactlyTheOldest ==
  \A t \in Threads : InsertedIntoFull(t) =>
    LET victim == Head(ByLastTouch(before))
        kept   == (before.keys \ {victim}) \cup {key[t]}
    IN  /\ DOMAIN clients = kept
        /\ Range(order) = kept
        /\ Len(order) = CLIENT_CACHE_LIMIT

\* A call has inserted a new key into a full cache.
C2_Witness == \E t \in Threads : InsertedIntoFull(t)

\* C3: in sequential execution, whenever a key leaves the map it is the
\* cached key whose last touch (a hit or an insert) is the oldest.
C3_EvictsByLastTouch ==
  [][\A x \in DOMAIN clients \ DOMAIN clients' :
       x = Head(SelectSeq(recency, LAMBDA k : k \in DOMAIN clients))]_vars

\* After an overflow the key inserted first is still cached, because it was
\* touched since: a key inserted later was evicted before it.
C3_Witness ==
  \E t \in Threads :
    /\ InsertedIntoFull(t)
    /\ Head(before.fifo) \in DOMAIN clients
    /\ Cardinality(DOMAIN clients) = CLIENT_CACHE_LIMIT

\* C4: a handle a thread holds stays alive: its allocation exists, whether
\* the map still holds it or not, and eviction takes only the cache's own
\* strong reference (the count of an allocation out of the map is the number
\* of its holders, that of one in the map is one more).
C4_HandleStaysValid ==
  /\ \A t \in Threads : client[t] => Cardinality(Held(t)) = 1
  /\ \A a \in detached : a.strong = Cardinality(a.holders) /\ a.strong >= 1
  /\ \A k \in DOMAIN clients :
       clients[k].strong = Cardinality(clients[k].holders) + 1

\* A request in flight holds a handle that the eviction loop has removed
\* from the map.
C4_Witness ==
  \E t \in Threads :
    /\ pc[t] = "returned" /\ result[t] = "Ok"
    /\ \E a \in detached : t \in a.holders /\ a.share = "evicted"

\* The build of thread t's call fails in this step.
FailsBuild(t) == result[t] = "" /\ result'[t] = "BuildError"

\* C5: in sequential execution, a call whose build fails returns the error
\* and leaves the map and the queue as they were, with no entry for its
\* key; and a later call for that key whose build succeeds returns with the
\* key cached and the new handle, built from its options, in its hands.
C5_BuildFailureIsNotCached ==
  [][\A t \in Threads :
       /\ FailsBuild(t) =>
            /\ clients' = clients /\ order' = order /\ detached' = detached
            /\ key'[t] \notin DOMAIN clients'
            /\ ~client'[t]
       /\ (path[t] = "retry" /\ Returns(t)) =>
            /\ result'[t] = "Ok"
            /\ key[t] \in DOMAIN clients'
            /\ t \in clients'[key[t]].holders
            /\ clients'[key[t]].emulation = options[t].emulation
            /\ clients'[key[t]].proxy = options[t].proxy]_vars

\* A call for the key whose build failed last has built the client and
\* returned it, and the key is cached.
C5_Witness ==
  \E t \in Threads :
    /\ path[t] = "retry" /\ pc[t] = "returned" /\ result[t] = "Ok"
    /\ key[t] \in DOMAIN clients /\ t \in clients[key[t]].holders

\* C6: every handle a call holds was built from the emulation profile and
\* the proxy of that call's options.
C6_HandleMatchesOptions ==
  \A t \in Threads : client[t] =>
    \A a \in Held(t) :
      a.emulation = options[t].emulation /\ a.proxy = options[t].proxy

\* C9: at rest the keys of the order queue are the keys of the map.
C9_QueueKeysAreMapKeys == AtRest => Range(order) = DOMAIN clients

\* C10 (as stated): a client is freed only after the eviction loop removed it
\* from the map and with no holder left.
C10_FreedOnlyAfterEviction ==
  lastFreed # NoFree => lastFreed.share = "evicted" /\ lastFreed.holders = {}

\* C10 (amended): a client is freed only after it left the map, removed by
\* the eviction loop or replaced by a later insert for the same key, and
\* with no holder left.
C10_FreedOnlyAfterLeavingMap ==
  lastFreed # NoFree =>
    lastFreed.share \in {"evicted", "replaced"} /\ lastFreed.holders = {}

\* A client was freed that an insert for the same key had replaced in the
\* map: the eviction loop never removed it.
C10_Witness == lastFreed.share = "replaced"

\* C7: two RequestOptions that differ in the emulation profile or in the
\* proxy get different ClientKeys.
C7_KeyIsInjective ==
  (ret # <<>> /\ (arg[1].emulation # arg[2].emulation \/ arg[1].proxy # arg[2].proxy))
    => ret[1] # ret[2]

\* max(1, ceil(timeout / TIMEOUT_BUCKET_MS)) * TIMEOUT_BUCKET_MS over the
\* naturals, as limbs (two more than a u64 has).
BucketReference(timeout) ==
  LET d       == LimbDivRem(timeout, TIMEOUT_BUCKET_MS, 0)
      ceil    == LimbAdd(d.q, IF d.r > 0 THEN 1 ELSE 0)
      atleast == IF LimbsAreZero(ceil) THEN LimbAdd(U64(0), 1) ELSE ceil
  IN  LimbMul(atleast, TIMEOUT_BUCKET_MS, 0)

\* C8: for every u64 timeout, bucket_timeout returns
\* max(1, ceil(timeout / 5000)) * 5000, a positive multiple of 5000.
C8_BucketIsCeiling ==
  ret # <<>> =>
    /\ ~ret[1].panicked
    /\ ret[1].value \o <<0, 0>> = BucketReference(arg[1])
    /\ ~LimbsAreZero(ret[1].value)
    /\ LimbDivRem(ret[1].value, TIMEOUT_BUCKET_MS, 0).r = 0

\* s occurs in text as a substring.
Contains(text, s) ==
  \E i \in 0..(Len(text) - Len(s)) : SubSeq(text, i + 1, i + Len(s)) = s

\* C12 (as stated): a method that is none of GET, POST, PUT, DELETE, PATCH,
\* HEAD when compared without regard to case makes make_request fail with the
\* unsupported-method error, whose message contains the method as the caller
\* gave it, and no request is sent.
C12_ErrorNamesGivenMethod ==
  (ret # <<>> /\ to_uppercase(arg[1].method) \notin SupportedMethods
              /\ arg[1].method # <<>>) =>
    /\ ~ret[1].request.ok
    /\ ret[1].request.request = NoRequest
    /\ \A n \in NetworkOutcomes : ret[1].result[n].kind = "UnsupportedMethod"
    /\ Contains(ret[1].request.message, arg[1].method)

\* C13: make_request with the empty method does what it does with "GET",
\* the other fields being the same: the same key, the same build and client
\* on a miss, the same request (GET, the url, headers, body and unbucketed
\* timeout of the options) and the same result for each network outcome.
C13_EmptyMethodIsGet ==
  (ret # <<>> /\ arg[1].method = <<>> /\ arg[2].method = GET) =>
    /\ ret[1] = ret[2]
    /\ ret[1].request.ok
    /\ ret[1].request.request =
         [method |-> GET, url |-> arg[1].url, headers |-> arg[1].headers,
          body |-> arg[1].body, timeout |-> arg[1].timeout]

\* The plans of a call with the empty method and of one with "GET" have
\* been made, for options with a body, headers and a timeout off the bucket.
C13_Witness ==
  /\ ret # <<>> /\ arg[1].method = <<>> /\ arg[2].method = GET
  /\ arg[1].body # None /\ arg[1].headers # <<>>
  /\ arg[1].timeout = U64(TIMEOUT_BUCKET_MS + 1)
  /\ ret[2].request.ok


\* Thread t's call stores the client it built in this step.
Stores(t) == pc[t] = "insert" /\ pc'[t] = "bump"

\* Thread t's call finds its key in the map in this step.
Hits(t) == pc[t] = "idle" /\ pc'[t] = "bump"

\* The client an Arc points to, whatever its count and holders.
ClientOf(a) == [emulation |-> a.emulation, proxy |-> a.proxy, share |-> a.share]

\* C11: when first-time calls for one key race, each may build a client; the
\* map holds one handle per key, which is the one stored last: an insert
\* stores the client its own call built, replacing the one the map held,
\* which stays alive for the calls that hold it; a hit returns the entry the
\* map holds; and no other step changes which client the map holds for a key.
C11_LastStoredIsCached ==
  [][/\ \A t \in Threads : Stores(t) =>
          LET mine == CHOOSE a \in detached : t \in a.holders
          IN  /\ clients'[key[t]] = [mine EXCEPT !.strong = @ + 1, !.share = "held"]
              /\ (key[t] \in DOMAIN clients /\ clients[key[t]].holders # {}) =>
                   \E a \in detached' :
                     /\ a.share = "replaced"
                     /\ a.holders = clients[key[t]].holders
                     /\ a.strong = Cardinality(a.holders)
     /\ \A t \in Threads : Hits(t) =>
          /\ clients'[key'[t]] = ArcClone(clients[key'[t]], t)
          /\ Held(t)' = {clients'[key'[t]]}
     /\ \A k \in DOMAIN clients' :
          \/ k \in DOMAIN clients /\ ClientOf(clients'[k]) = ClientOf(clients[k])
                                  /\ clients'[k].holders \subseteq
                                       clients[k].holders \cup {t \in Threads : Hits(t)}
          \/ \E t \in Threads : Stores(t) /\ key[t] = k]_vars

\* A call has returned the client it built, which a racing call for the same
\* key has replaced in the map: the call holds the superseded client while
\* the key is cached with the other.
C11_Witness ==
  \E t \in Threads :
    /\ pc[t] = "returned" /\ result[t] = "Ok"
    /\ key[t] \in DOMAIN clients /\ t \notin clients[key[t]].holders
    /\ \E a \in detached : t \in a.holders /\ a.share = "replaced"

\* The queue holds no key twice.
NoDuplicates(q) == \A i, j \in 1..Len(q) : q[i] = q[j] => i = j

\* C16: a bump_key(K) leaves K at the back of the queue, from its push_back
\* to its return; the queue never holds a key twice; and while no thread is
\* in bump_key's critical section the queue holds at most CLIENT_CACHE_LIMIT
\* keys.
C16_TouchMovesToBack ==
  /\ [](/\ NoDuplicates(order)
        /\ orderLock = NoThread => Len(order) <= CLIENT_CACHE_LIMIT
        /\ \A t \in Threads : pc[t] = "evict" =>
             orderLock = t /\ order # <<>> /\ order[Len(order)] = key[t])
  /\ [][\A t \in Threads : Returns(t) =>
          order' # <<>> /\ order'[Len(order')] = key[t]]_vars

\* A thread is in bump_key after its push_back, with the queue over the
\* limit and its key at the back.
C16_Witness ==
  \E t \in Threads :
    /\ pc[t] = "evict" /\ orderLock = t
    /\ Len(order) = CLIENT_CACHE_LIMIT + 1
    /\ order[Len(order)] = key[t]

\* C19: at rest every key of the map is in the order queue, and the map
\* holds at most CLIENT_CACHE_LIMIT entries.
C19_MapKeysAreQueued ==
  AtRest =>
    /\ DOMAIN clients \subseteq Range(order)
    /\ Cardinality(DOMAIN clients) <= CLIENT_CACHE_LIMIT

\* The cache is at rest with the queue full and holding a key the map does
\* not hold: the map's keys are some, not all, of the queue's.
C19_Witness ==
  /\ AtRest
  /\ Len(order) = CLIENT_CACHE_LIMIT
  /\ DOMAIN clients # {} /\ DOMAIN clients # Range(order)


\* The keys of the last CLIENT_CACHE_LIMIT touches of distinct keys: each was
\* touched successfully with at most CLIENT_CACHE_LIMIT - 1 other keys since.
LastTouched(h) ==
  {h[i] : i \in {j \in 1..Len(h) : j > Len(h) - CLIENT_CACHE_LIMIT}}

\* Thread t's call begins in this step.
Begins(t) == pc[t] = "idle" /\ pc'[t] # "idle"

\* C17: in sequential execution a key that was touched successfully, with at
\* most CLIENT_CACHE_LIMIT - 1 other keys touched successfully since, is
\* cached; a call for it is a hit that returns the handle the map holds and
\* builds nothing; and the handle the map holds for a key is never replaced
\* while the key stays cached.  Builds that fail are not touches.
C17_RecentKeyIsReused ==
  /\ [](LastTouched(recency) \subseteq DOMAIN clients)
  /\ [][/\ \A t \in Threads :
             (Begins(t) /\ key'[t] \in LastTouched(recency)) =>
               /\ path'[t] = "hit" /\ client'[t]
               /\ clients'[key'[t]] = ArcClone(clients[key'[t]], t)
               /\ detached' = detached
               /\ result'[t] # "BuildError"
        /\ \A t \in Threads :
             (Begins(t) /\ result'[t] = "BuildError") =>
               recency' = recency /\ clients' = clients
        /\ \A k \in DOMAIN clients \cap DOMAIN clients' :
             ClientOf(clients'[k]) = ClientOf(clients[k])]_vars

\* A call has hit a key that was touched CLIENT_CACHE_LIMIT - 1 other keys
\* ago, in a full cache, after some build had failed.
C17_Witness ==
  \E t \in Threads :
    /\ pc[t] = "returned" /\ result[t] = "Ok" /\ path[t] = "hit"
    /\ Len(before.recency) >= CLIENT_CACHE_LIMIT
    /\ key[t] = before.recency[Len(before.recency) - CLIENT_CACHE_LIMIT + 1]
    /\ Cardinality(before.keys) = CLIENT_CACHE_LIMIT
    /\ lastFailed # NoKey


\* C18: of a finite set of concurrent calls of get_or_try_insert, scheduled
\* fairly, every call returns.
C18_EveryCallReturns ==
  \A t \in Threads : (pc[t] # "idle") ~> (pc[t] = "returned")

\* A call waits for the order mutex while the call that holds it is in the
\* eviction loop with the queue over the limit.
C18_Witness ==
  \E t, u \in Threads :
    /\ pc[t] = "bump" /\ pc[u] = "evict" /\ orderLock = u
    /\ OverLimit(order)


\* The cookie mapping as the specification states it, by positions in the
\* header value: a segment lies between two neighbouring separators (or
\* ends of the value); trimmed, it runs from its first to its last
\* character that is no space; its name ends before its first '=' and its
\* value begins after it.  Of two segments with one name the later one
\* gives the value.
CookieSegments(s) ==
  LET ends == {0, Len(s) + 1} \cup {i \in 1..Len(s) : s[i] = ";"}
  IN  {seg \in ends \X ends :
         seg[1] < seg[2] /\ \A e \in ends : ~(seg[1] < e /\ e < seg[2])}

CookiePairs(s) ==
  {[at |-> seg[1], name |-> SubSeq(s, lo, eq - 1), value |-> SubSeq(s, eq + 1, hi)] :
     <<seg, lo, hi, eq>> \in
       {x \in CookieSegments(s) \X (1..Len(s)) \X (1..Len(s)) \X (1..Len(s)) :
          LET inside == {i \in (x[1][1] + 1)..(x[1][2] - 1) : s[i] # " "}
          IN  /\ x[2] \in inside /\ \A i \in inside : x[2] <= i
              /\ x[3] \in inside /\ \A i \in inside : i <= x[3]
              /\ x[4] \in x[2]..x[3] /\ s[x[4]] = "="
              /\ \A i \in x[2]..(x[4] - 1) : s[i] # "="}}

CookieReference(set_cookie) ==
  IF set_cookie = <<>> THEN NoCookies
  ELSE LET pairs == CookiePairs(set_cookie[1])
       IN  [name \in {p.name : p \in pairs} |->
              (CHOOSE p \in pairs :
                 p.name = name /\ \A q \in pairs : q.name = name => q.at <= p.at).value]

\* C15 (as stated): the cookies of a response are those of the first
\* set-cookie header, split on ';', each segment trimmed and split on its
\* first '='; none when there is no set-cookie header.
C15_CookiesOfFirstHeader ==
  ret # <<>> => ret[1] = CookieReference(arg)

\* C15 (amended): the same, when the first set-cookie header decodes as
\* visible ASCII text; a first set-cookie header that does not decode gives
\* no cookies, like no set-cookie header.
C15_CookiesOfDecodedHeader ==
  ret # <<>> =>
    ret[1] = IF arg # <<>> /\ \E i \in 1..Len(arg[1]) : arg[1][i] = NonText
             THEN NoCookies
             ELSE CookieReference(arg)

\* The cookies of "a=1; b=2" are a = 1 and b = 2.
C15_Witness ==
  /\ ret # <<>> /\ arg = <<Example>>
  /\ DOMAIN ret[1] = {<<"a">>, <<"b">>}
  /\ ret[1][<<"a">>] = <<"1">> /\ ret[1][<<"b">>] = <<"2">>


\* The results of a request that failed after it was sent, or was dropped.
FailedInFlight == {"RequestError", "BodyReadError", "Cancelled"}

\* Thread t's request fails, or is cancelled, in this step.
FailsInFlight(t) ==
  pc[t] \in {"send", "body"} /\ pc'[t] = "done" /\ result'[t] \in FailedInFlight

\* Thread t's call, whose request failed or was cancelled, ends in this step.
EndsFailed(t) ==
  pc[t] = "done" /\ result[t] \in FailedInFlight /\ pc'[t] = "idle"

\* Thread u is as it was, with the handle it held.
Undisturbed(u) ==
  /\ pc'[u] = pc[u] /\ result'[u] = result[u] /\ key'[u] = key[u]
  /\ client'[u] = client[u] /\ Held(u)' = Held(u)

\* C14: a request that fails in send or in the body read, or is cancelled,
\* fails its own call only.  The failing step changes neither the map, nor
\* the queue, nor any client, nor any other call; when the failed call ends
\* and drops its handle, the map keeps its keys and the client of each, the
\* queue is unchanged and every other call keeps its handle; and a request
\* in flight always holds one live client.
C14_FailureStaysInItsCall ==
  /\ [](\A t \in Threads : pc[t] \in {"send", "body"} =>
          /\ Cardinality(Held(t)) = 1
          /\ \A a \in Held(t) : a.strong >= 1)
  /\ [][\A t \in Threads :
          /\ FailsInFlight(t) =>
               /\ clients' = clients /\ order' = order /\ detached' = detached
               /\ orderLock' = orderLock
               /\ \A u \in Threads \ {t} : Undisturbed(u)
          /\ EndsFailed(t) =>
               /\ DOMAIN clients' = DOMAIN clients /\ order' = order
               /\ \A k \in DOMAIN clients : ClientOf(clients'[k]) = ClientOf(clients[k])
               /\ \A u \in Threads \ {t} :
                    /\ pc'[u] = pc[u] /\ result'[u] = result[u] /\ client'[u] = client[u]
                    /\ {ClientOf(a) : a \in Held(u)'} = {ClientOf(a) : a \in Held(u)}
                    /\ \A a \in Held(u)' : a.strong >= 1]_vars

\* A call has failed in flight while another call's request is in flight on
\* the same handle, which the map holds.
C14_Witness ==
  \E t, u \in Threads :
    /\ t # u
    /\ pc[t] = "done" /\ result[t] \in {"RequestError", "BodyReadError"}
    /\ pc[u] \in {"send", "body"}
    /\ key[t] \in DOMAIN clients
    /\ Held(t) = {clients[key[t]]} /\ Held(u) = Held(t)

\* Thread t's call fails on its method in this step.
FailsOnMethod(t) == result[t] # "UnsupportedMethod" /\ result'[t] = "UnsupportedMethod"

\* The method of thread t's calls is not supported.
Unsupported(t) == to_uppercase(DefaultMethod(arg[t])) \notin SupportedMethods

\* C20: make_request gets its client before it looks at the method.  In
\* sequential execution a call that fails on its method has got its client
\* from get_or_try_insert: its key is cached and at the back of the queue,
\* the call holds the cached client, which on a miss it built from its own
\* options, and a miss on a full cache has evicted the key touched longest
\* ago; the failure changes nothing in the cache.  A call with an
\* unparseable proxy fails with the build error whatever its method, and a
\* call with an unsupported method sends nothing.
C20_ClientBeforeMethod ==
  /\ [](\A t \in Threads :
          /\ (options[t].proxy # None /\ ~ProxyParses(options[t].proxy[1])
              /\ pc[t] # "idle") => result[t] = "BuildError"
          /\ (Unsupported(t) /\ pc[t] = "done") => result[t] = "UnsupportedMethod"
          /\ pc[t] \in {"send", "body"} => ~Unsupported(t))
  /\ [][\A t \in Threads : FailsOnMethod(t) =>
          /\ pc[t] = "returned" /\ result[t] = "Ok" /\ client[t]
          /\ key[t] \in DOMAIN clients /\ Held(t) = {clients[key[t]]}
          /\ order # <<>> /\ order[Len(order)] = key[t]
          /\ recency # <<>> /\ recency[Len(recency)] = key[t]
          /\ path[t] # "hit" =>
               /\ key[t] \notin before.keys
               /\ clients[key[t]].emulation = options[t].emulation
               /\ clients[key[t]].proxy = options[t].proxy
               /\ Cardinality(before.keys) = CLIENT_CACHE_LIMIT =>
                    Head(ByLastTouch(before)) \notin DOMAIN clients
          /\ clients' = clients /\ order' = order /\ detached' = detached]_vars

\* A call with an unsupported method has failed on it after it built its
\* client, inserted it into a full cache and evicted another key.
C20_Witness ==
  \E t \in Threads :
    /\ pc[t] = "done" /\ result[t] = "UnsupportedMethod"
    /\ path[t] # "hit"
    /\ Cardinality(before.keys) = CLIENT_CACHE_LIMIT
    /\ key[t] \in DOMAIN clients
    /\ Cardinality(DOMAIN clients) = CLIENT_CACHE_LIMIT


====
